---- MODULE Spec2Model ----
(***************************************************************************)
(* Model of the distributed coordinator of the MIT OCW crawler             *)
(* (src/src/utils/distributed.py, class DistributedScraper).               *)
(*                                                                         *)
(* Every node is one operating-system process holding its own              *)
(* DistributedScraper: a private in-memory copy self.db of the store,      *)
(* loaded once by _init_db and never read again, a process-wide            *)
(* threading.Lock db_lock, a worker thread that calls should_process_url   *)
(* and mark_as_processed, and a sync thread that calls _heartbeat.  The    *)
(* nodes share one store file.  The content the store file has when the    *)
(* first process starts is an input of the program (--db-path names any    *)
(* file): it is drawn from the well-formed states of the persisted layout. *)
(*                                                                         *)
(* db_lock is a threading.Lock, which is not reentrant: _save_db takes it  *)
(* again while should_process_url, mark_as_processed and _heartbeat hold   *)
(* it, so a handler that reaches its save never returns and keeps the      *)
(* lock.  The model keeps that: such a call is "hung".                     *)
(*                                                                         *)
(* hash(course_url) of a str is salted per process (PYTHONHASHSEED), so    *)
(* every process start draws a seed.                                       *)
(*                                                                         *)
(* The second part models course discovery (src/src/course_scrapper.py,    *)
(* class CourseScraper): the runs of one task after the other, each        *)
(* loading the courses_found file of its task id, and discover_courses     *)
(* source by source.  Further parts model run() and process_courses of    *)
(* one process, the scroll loop of discover_courses scroll by scroll, the  *)
(* sync thread (start_sync, stop_sync, _sync_loop) and main (src/main.py). *)
(***************************************************************************)
EXTENDS Integers, Sequences, FiniteSets, TLC

\* ---------------------------------------------------------------- bounds
\* How many process starts a behaviour holds, over all nodes.
MaxStarts == 3

\* DISTRIBUTED_TOTAL_NODES as configured on every node (--total-nodes).
TotalNodes == 2

\* The largest node count the partition formula is examined for.
MaxTotalNodes == 3

\* How many process starts a behaviour with fair scheduling holds.
MaxFairStarts == 2

\* ---------------------------------------------------------- program constants
\* "> 3600" in _heartbeat and should_process_url: the lease timeout.
LeaseTimeout == 3600

\* DISTRIBUTED_SYNC_INTERVAL
SyncInterval == 300

\* ------------------------------------------------------------- model sets
\* The node ids of the cooperating processes (DISTRIBUTED_NODE_ID of each).
Nodes == {1, 2}

\* Course URLs.
Urls == {"u1", "u2"}

\* The instants time.time() is observed at: around the two thresholds.
Instants == {0, 100, 601, 3600, 3700}

\* The hash salts a process start can draw.
Seeds == {1, 2}

\* The values hash() is examined over in the partition formula.
HashValues == -9 .. 9

Absent == -1

\* str(node_id): the keys of db["nodes"].
Str(n) ==
  CASE n = 1 -> "1" [] n = 2 -> "2" [] n = 3 -> "3" [] n = 4 -> "4" [] OTHER -> "?"

NodeKeys == {Str(n) : n \in Nodes}

NoClaim == [node_id |-> 0, start_time |-> Absent]

\* No store file (os.path.exists is false), and the memory of a stopped process.
NoDb ==
  [nodes |-> [k \in NodeKeys |-> Absent], processed_courses |-> <<>>,
   failed_courses |-> <<>>, in_progress_courses |-> [u \in Urls |-> NoClaim],
   last_updated |-> Absent]

\* `x in list`
InList(x, list) == \E i \in 1 .. Len(list) : list[i] = x

\* hash(course_url) under the salt of the process: a signed integer.
Hash(sd, u) ==
  CASE sd = 1 /\ u = "u1" -> -3
    [] sd = 1 /\ u = "u2" -> 4
    [] sd = 2 /\ u = "u1" -> 6
    [] sd = 2 /\ u = "u2" -> -7
    [] OTHER -> 0

\* The partition with a remainder that takes the sign of the dividend.
PartitionTruncated(h, total_nodes) ==
  (IF h >= 0 THEN h % total_nodes ELSE 0 - ((0 - h) % total_nodes)) + 1

\* hash(course_url) % self.total_nodes + 1 (Python's % takes the sign of the divisor).
Partition(h, total_nodes) == (h % total_nodes) + 1

\* _create_new_db: the fresh state, which is then saved.
CreateNewDb(n, t) ==
  [nodes |-> [k \in NodeKeys |-> IF k = Str(n) THEN t ELSE Absent],
   processed_courses |-> <<>>, failed_courses |-> <<>>,
   in_progress_courses |-> [u \in Urls |-> NoClaim], last_updated |-> t]

\* `with db_lock:` inside _save_db cannot be entered while the lock is held,
\* by whichever thread: threading.Lock is not reentrant.
SaveDbBlocks(holder) == holder # "free"

VARIABLES now, file, up, seed, mem, lock, call, starts

vars == <<now, file, up, seed, mem, lock, call, starts>>

\* The observer's record of the last should_process_url of a node's worker thread
\* with nothing run by the node since (a restart apart): its argument, its result
\* ("hung": it never returns), the partition index it computed (0: none), whether
\* the process ended since, and, when it directly follows a should_process_url of
\* the same url that returned True, how it follows it ("True": in the same process,
\* "TrueRestart": after a restart).
NoCall ==
  [url |-> "", result |-> "none", hashed |-> FALSE, url_hash |-> 0, ended |-> FALSE,
   prev |-> "none"]

\* ------------------------------------------------------- the store at the start
Perms(S) ==
  {s \in [1 .. Cardinality(S) -> S] : \A i, j \in 1 .. Cardinality(S) : s[i] = s[j] => i = j}

\* The states of the persisted layout a process may find in the store file: written
\* at time 0, node 1 registered (the node that created the store), any other node
\* registered or not.
StoredStates ==
  {[nodes |-> nd, processed_courses |-> p, failed_courses |-> f,
    in_progress_courses |-> ip, last_updated |-> 0] :
      nd \in {m \in [NodeKeys -> {Absent, 0}] : m[Str(1)] = 0},
      p \in UNION {Perms(S) : S \in SUBSET Urls},
      f \in UNION {Perms(S) : S \in SUBSET Urls},
      ip \in [Urls -> {NoClaim} \cup [node_id : Nodes, start_time : {0}]]}

\* Such a state is well formed: every identifier is in at most one of the three
\* collections (the lists hold no entry twice by construction).
WellFormed(db) ==
  \A u \in Urls :
    /\ ~(InList(u, db.processed_courses) /\ InList(u, db.failed_courses))
    /\ db.in_progress_courses[u] # NoClaim =>
         ~InList(u, db.processed_courses) /\ ~InList(u, db.failed_courses)

\* ------------------------------------------------- CourseScraper: discovery
\* How many CourseScraper runs a behaviour holds.
MaxRuns == 3

\* How many subject URLs a run is given.
MaxSubjects == 2

\* How many articles the search page shows at first and loads per scroll.
PageSize == 2

\* max_scroll_attempts in discover_courses
MaxScrollAttempts == 100

\* max_courses_per_subject=None: no limit.
None == -1

\* URLs are strings; a string is the sequence of its characters, and the numbers
\* 1, 2, 3 stand for three characters in their code point order.
SubjectUrls == {<<1>>, <<2>>}

\* DEFAULT_QUERY_URL, the query_url of every run.
DEFAULT_QUERY_URL == <<3>>

\* DEFAULT_SUBJECT_URLS
DEFAULT_SUBJECT_URLS == << <<1>>, <<2>> >>

\* The limits a run is given as max_courses_per_subject.
Caps == {None, 1, 3}

\* The course URLs the site lists for a search URL, in page order: what the page
\* holds once everything is loaded.
Listing(url) ==
  CASE url = <<1>> -> <<"c1", "c2", "c3">>
    [] url = <<2>> -> <<"c2", "c4", "c2">>
    [] url = <<3>> -> <<"c1">>
    [] OTHER -> <<>>

\* A search URL whose result page loads more courses at every scroll.
EndlessUrl == <<4>>

\* How many sources the run of the scroll loop is given.
MaxScrollSources == 2

\* The subject_urls the run of the scroll loop is given: custom lists of distinct
\* URLs, the endless one among them.
ScrollUrlLists ==
  {l \in UNION {[1 .. k -> SubjectUrls \cup {EndlessUrl}] : k \in 1 .. MaxScrollSources} :
     /\ \A i, j \in 1 .. Len(l) : l[i] = l[j] => i = j
     /\ l # DEFAULT_SUBJECT_URLS}

\* The subject_urls a run is given: lists of distinct subject URLs.
SubjectUrlLists ==
  {l \in UNION {[1 .. k -> SubjectUrls] : k \in 1 .. MaxSubjects} :
     \A i, j \in 1 .. Len(l) : l[i] = l[j] => i = j}

\* a < b for strings: Python compares them character by character.
RECURSIVE StrLess(_, _)
StrLess(a, b) ==
  IF b = <<>> THEN FALSE
  ELSE IF a = <<>> THEN TRUE
  ELSE IF Head(a) # Head(b) THEN Head(a) < Head(b)
  ELSE StrLess(Tail(a), Tail(b))

\* sorted(list) for a list of distinct strings.
Sorted(list) ==
  CHOOSE s \in [1 .. Len(list) -> {list[i] : i \in 1 .. Len(list)}] :
    \A i, j \in 1 .. Len(list) : i < j => StrLess(s[i], s[j])

\* "".join(list)
RECURSIVE Join(_)
Join(list) == IF list = <<>> THEN <<>> ELSE Head(list) \o Join(Tail(list))

\* _generate_task_id: the sorted subject URLs and then the query URL, joined.  The
\* first 8 hex digits of the MD5 of that string are taken to tell two different
\* strings apart.
GenerateTaskId(subject_urls, query_url) ==
  Join(Sorted(subject_urls) \o (IF query_url # <<>> THEN <<query_url>> ELSE <<>>))

\* The task ids, which name the courses_found_<task_id>.json files.
TaskIds == {GenerateTaskId(l, DEFAULT_QUERY_URL) : l \in SubjectUrlLists \cup ScrollUrlLists}

\* get_subject_urls_for_node that counts the list positions from 1.
GetSubjectUrlsForNodeFromOne(all_subject_urls, enabled, total_nodes, node_id) ==
  IF ~enabled \/ total_nodes <= 1
    THEN all_subject_urls
    ELSE LET idx == {i \in 1 .. Len(all_subject_urls) : (i % total_nodes) + 1 = node_id}
             RECURSIVE PickFromOne(_)
             PickFromOne(i) == IF i > Len(all_subject_urls) THEN <<>>
                               ELSE (IF i \in idx THEN <<all_subject_urls[i]>> ELSE <<>>)
                                      \o PickFromOne(i + 1)
         IN PickFromOne(1)

\* get_subject_urls_for_node: every URL unless distributed scraping is enabled with
\* more than one node, and then the URLs at the list positions of node node_id.
GetSubjectUrlsForNode(all_subject_urls, enabled, total_nodes, node_id) ==
  IF ~enabled \/ total_nodes <= 1
    THEN all_subject_urls
    ELSE LET idx == {i \in 1 .. Len(all_subject_urls) :
                       ((i - 1) % total_nodes) + 1 = node_id}
             RECURSIVE Pick(_)
             Pick(i) == IF i > Len(all_subject_urls) THEN <<>>
                        ELSE (IF i \in idx THEN <<all_subject_urls[i]>> ELSE <<>>)
                               \o Pick(i + 1)
         IN Pick(1)

\* self._urls_to_scrape as __init__ prepares it.
UrlsToScrape(subject_urls, query_url, enabled, total_nodes, node_id) ==
  (IF subject_urls = DEFAULT_SUBJECT_URLS /\ query_url # <<>>
     THEN <<query_url>> ELSE <<>>)
    \o GetSubjectUrlsForNode(subject_urls, enabled, total_nodes, node_id)

\* set(list)
SetOf(list) == {list[i] : i \in 1 .. Len(list)}

\* No courses_found file of that task id.
NoRecord == [task_id |-> <<>>, urls |-> <<>>, courses |-> <<>>]

\* _load_found_courses that takes the saved list whenever the task id matches.
LoadFoundCoursesByTaskId(rec, task_id, urls_to_scrape) ==
  IF rec # NoRecord /\ rec.task_id = task_id THEN rec.courses ELSE <<>>

\* _load_found_courses: the saved list when the file exists and its task_id and URL
\* set are those of this run, else the empty list.
LoadFoundCourses(rec, task_id, urls_to_scrape) ==
  IF rec = NoRecord
    THEN <<>>
    ELSE IF rec.task_id = task_id /\ SetOf(rec.urls) = SetOf(urls_to_scrape)
           THEN rec.courses
           ELSE <<>>

\* The page after `scrolls` scrolls: the articles loaded so far.
PageAfter(url, scrolls) ==
  LET all == Listing(url)
      n == PageSize * (scrolls + 1)
  IN IF url = EndlessUrl THEN [i \in 1 .. n |-> "e" \o ToString(i)]
     ELSE IF Len(all) <= n THEN all ELSE SubSeq(all, 1, n)

\* The loops `for course in ...` of discover_courses: append the courses of `new`
\* until the limit of this subject is reached.
RECURSIVE AddCourses(_, _, _, _, _)
AddCourses(found, courses_found_this_subject, new, url, cap) ==
  IF new = <<>> \/ (cap # None /\ courses_found_this_subject >= cap)
    THEN [found |-> found, count |-> courses_found_this_subject]
    ELSE AddCourses(Append(found, [url |-> Head(new), subject_url |-> url]),
                    courses_found_this_subject + 1, Tail(new), url, cap)

\* The infinite-scroll loop of discover_courses.
RECURSIVE ScrollLoop(_, _, _, _, _)
ScrollLoop(found, courses_before_scroll, url, cap, scroll_attempt) ==
  IF scroll_attempt > MaxScrollAttempts
    THEN found
    ELSE
      LET current_courses == PageAfter(url, scroll_attempt)
      IN
        IF Len(current_courses) <= courses_before_scroll
          THEN found
          ELSE
            LET r == AddCourses(found, courses_before_scroll,
                                SubSeq(current_courses, courses_before_scroll + 1,
                                       Len(current_courses)), url, cap)
            IN IF cap # None /\ r.count >= cap
                 THEN r.found
                 ELSE ScrollLoop(r.found, r.count, url, cap, scroll_attempt + 1)

\* One turn of `for url_index, current_url in enumerate(self._urls_to_scrape)`:
\* courses_found after the source current_url was visited.  With a driver: the first
\* page (no article: timeout, skip) and the scroll loop; without: the requests
\* fallback, which appends every course of the page it fetched.  A visit that raises
\* adds nothing.
VisitedSource(found, current_url, cap, driver, ok) ==
  IF ~ok THEN found
  ELSE IF ~driver
    THEN AddCourses(found, 0, PageAfter(current_url, 0), current_url, None).found
  ELSE IF PageAfter(current_url, 0) = <<>> THEN found
  ELSE
    LET r == AddCourses(found, 0, PageAfter(current_url, 0), current_url, cap)
    IN IF cap # None /\ r.count >= cap
         THEN r.found
         ELSE ScrollLoop(r.found, r.count, current_url, cap, 1)

\* The CourseScraper of the running process (courses_found, scraper: task_id,
\* _urls_to_scrape, max_courses_per_subject, driver), where it stands (phase: "idle",
\* "constructed", "visiting", "returned"; url_index), what discover_courses returned
\* (<<>>: nothing yet, else the list inside a 1-tuple), and the courses_found files
\* by task id.  The observer keeps in session what the constructor found on disk
\* (exists, matched, persisted), the limit of the run that wrote it (prior_cap),
\* and whether an earlier run discarded a list (discarded); written_with holds per
\* file the limit of the run that wrote it; runs counts the runs.
VARIABLES courses_found, courses_found_file, scraper, phase, url_index, returned,
          session, written_with, runs

dvars ==
  <<courses_found, courses_found_file, scraper, phase, url_index, returned, session,
    written_with, runs>>

NoScraper ==
  [task_id |-> <<>>, urls_to_scrape |-> <<>>, max_courses_per_subject |-> None,
   driver |-> FALSE]

NoSession ==
  [exists |-> FALSE, matched |-> FALSE, persisted |-> <<>>, prior_cap |-> None,
   discarded |-> FALSE]

\* No CourseScraper is running and no courses_found file exists.
DiscoveryIdle ==
  /\ courses_found = <<>>
  /\ courses_found_file = [t \in TaskIds |-> NoRecord]
  /\ scraper = NoScraper
  /\ phase = "idle"
  /\ url_index = 0
  /\ returned = <<>>
  /\ session = NoSession
  /\ written_with = [t \in TaskIds |-> None]
  /\ runs = 0

\* ------------------------------------------------ CourseScraper: the run
\* How many entries the courses_found list of a run holds.
MaxFound == 2

\* How many process starts a behaviour with failing store I/O holds.
MaxIoStarts == 1

\* The values --max-total-courses is given.
TotalArgs == {-2, 0, 1, 2}

\* The url of an entry of courses_found that has none (course.get('url') is empty).
NoUrl == ""

\* The courses_found lists process_courses is run on: discover_courses keeps repeats.
FoundLists == UNION {[1 .. k -> Urls \cup {NoUrl}] : k \in 0 .. MaxFound}

\* What ContentScraper.run does for a course: it returns the output path, returns
\* None, or raises.
FetchResults == {"path", "None", "raises"}

\* The I/O outcomes of _save_db: written, open() raises (the file is as it was),
\* json.dump raises (the file is left truncated).
WriteOutcomes == {"ok", "open_raises", "dump_raises"}

\* A store file that exists and cannot be parsed: it holds no record.
Garbled == [NoDb EXCEPT !.last_updated = -2]

\* main that hands --max-total-courses to run() as it is.
MaxTotalCoursesKept(arg) == arg

\* main: max_total_courses of run() from --max-total-courses, where 0 or less means
\* no limit.
MaxTotalCoursesOf(arg) == IF arg # None /\ arg <= 0 THEN None ELSE arg

\* list[:k]
Slice(list, k) ==
  IF k >= 0
    THEN SubSeq(list, 1, IF k < Len(list) THEN k ELSE Len(list))
    ELSE SubSeq(list, 1, IF Len(list) + k > 0 THEN Len(list) + k ELSE 0)

\* `total = len(self.courses_found) or 1`
Total(found) == IF Len(found) = 0 THEN 1 ELSE Len(found)

\* progress_percent that counts the processed courses only.
ProgressPercentProcessedOnly(found, processed, failed) ==
  (Len(processed) * 100) \div Total(found)

\* progress_percent of _update_progress, rounded down to a whole number.
ProgressPercent(found, processed, failed) ==
  ((Len(processed) + Len(failed)) * 100) \div Total(found)

\* get_stats that counts the failed courses among the processed ones.
GetStatsBodyFailedAsProcessed(db) ==
  [active_nodes |-> Cardinality({k \in NodeKeys : db.nodes[k] # Absent}),
   processed_courses |-> Len(db.processed_courses) + Len(db.failed_courses),
   failed_courses |-> Len(db.failed_courses),
   in_progress_courses |-> Cardinality({u \in Urls : db.in_progress_courses[u] # NoClaim}),
   last_updated |-> db.last_updated]

\* get_stats: the counts of the four collections and last_updated.
GetStatsBody(db) ==
  [active_nodes |-> Cardinality({k \in NodeKeys : db.nodes[k] # Absent}),
   processed_courses |-> Len(db.processed_courses),
   failed_courses |-> Len(db.failed_courses),
   in_progress_courses |-> Cardinality({u \in Urls : db.in_progress_courses[u] # NoClaim}),
   last_updated |-> db.last_updated]

\* io: per node, how the store I/O of the construction of its process went (the
\* observer's record).  scraping_enabled: DISTRIBUTED_SCRAPING_ENABLED.  work: per
\* node, run() and its process_courses loop: where it stands (stage: "none", "begun",
\* "loop", "fetch", "mark", "hung", "returned", "done"; index: the list position at
\* hand, from 1),
\* courses_found, courses_to_process, courses_processed and courses_failed (course
\* URLs), the percentage _update_progress printed last, and the observer's record of
\* the loop: the should_process_url calls with their results, the positions fetched
\* and the mark_as_processed calls.  stats: per node, what get_stats returned last.
VARIABLES io, scraping_enabled, work, stats

rvars == <<io, scraping_enabled, work, stats>>

\* No read of the store has failed and no write was attempted.
NoIo == [read_failed |-> FALSE, write |-> "none"]

NoWork ==
  [stage |-> "none", index |-> 0, max_total_courses |-> None, courses_found |-> <<>>,
   courses_to_process |-> <<>>, courses_processed |-> <<>>, courses_failed |-> <<>>,
   success |-> FALSE, progress_percent |-> None, attempts |-> <<>>, fetched |-> <<>>,
   marks |-> <<>>]

NoStats ==
  [active_nodes |-> None, processed_courses |-> None, failed_courses |-> None,
   in_progress_courses |-> None, last_updated |-> None]

\* ------------------------------------------------ scroll loop, sync thread, main
\* The infinite-scroll loop for the source at hand (active while it runs:
\* scroll_attempt, courses_before_scroll, courses_found_this_subject; iterations
\* counts the turns of the loop and ended_by tells how the last loop ended); of each
\* DistributedScraper sync_running, sync_thread (0: None, else the number of the
\* thread), the states of the threads it started ("started": at the test of
\* _sync_loop, "heartbeat": inside _heartbeat, "exited") and the last of start_sync
\* and stop_sync that was called; the arguments main was given and the store files
\* by path.
VARIABLES scrolling, sync_running, sync_thread, threads, sync_call, args, disk

xvars == <<scrolling, sync_running, sync_thread, threads, sync_call, args, disk>>

\* What the sync thread part of a DistributedScraper holds.
svars == <<sync_running, sync_thread, threads, sync_call>>

\* The paths a store file is kept at: DISTRIBUTED_DB_PATH of constants.py and a
\* path given as --db-path.
DbPaths == {"distributed_db.json", "custom_db.json"}

\* DISTRIBUTED_DB_PATH
DISTRIBUTED_DB_PATH == "distributed_db.json"

NoScroll ==
  [active |-> FALSE, scroll_attempt |-> 0, courses_before_scroll |-> 0,
   courses_found_this_subject |-> 0, iterations |-> 0, ended_by |-> "none"]

\* main has not run.
NoArgs ==
  [parsed |-> FALSE, force_refresh |-> FALSE, distributed |-> FALSE,
   db_path |-> DISTRIBUTED_DB_PATH]

\* No scroll loop has run, no sync thread was started, main has not run.
ExtraIdle ==
  /\ scrolling = NoScroll
  /\ sync_running = [n \in Nodes |-> FALSE]
  /\ sync_thread = [n \in Nodes |-> 0]
  /\ threads = [n \in Nodes |-> <<>>]
  /\ sync_call = [n \in Nodes |-> "none"]
  /\ args = NoArgs
  /\ disk = [p \in DbPaths |-> NoDb]

\* No run() has begun; distributed scraping is enabled.
RunIdle ==
  /\ io = [n \in Nodes |-> NoIo]
  /\ scraping_enabled = TRUE
  /\ work = [n \in Nodes |-> NoWork]
  /\ stats = [n \in Nodes |-> NoStats]

Init ==
  /\ now = 0
  /\ file \in {NoDb} \cup {db \in StoredStates : WellFormed(db)}
  /\ up = [n \in Nodes |-> FALSE]
  /\ seed = [n \in Nodes |-> 0]
  /\ mem = [n \in Nodes |-> NoDb]
  /\ lock = [n \in Nodes |-> "free"]
  /\ call = [n \in Nodes |-> NoCall]
  /\ starts = 0
  /\ DiscoveryIdle
  /\ ExtraIdle
  /\ RunIdle

\* time.time() moves on.
Tick ==
  /\ \E t \in Instants : t > now /\ now' = t
  /\ UNCHANGED <<file, up, seed, mem, lock, call, starts>>
  /\ UNCHANGED dvars
  /\ UNCHANGED rvars
  /\ UNCHANGED xvars

\* __init__ and _init_db: load the store file when it exists, else _create_new_db,
\* whose _save_db runs with db_lock free and writes the file.
Start(n) ==
  /\ ~up[n]
  /\ starts < MaxStarts
  /\ up' = [up EXCEPT ![n] = TRUE]
  /\ starts' = starts + 1
  /\ \E sd \in Seeds : seed' = [seed EXCEPT ![n] = sd]
  /\ lock' = [lock EXCEPT ![n] = "free"]
  /\ IF file # NoDb
       THEN /\ mem' = [mem EXCEPT ![n] = file]
            /\ file' = file
       ELSE /\ mem' = [mem EXCEPT ![n] = CreateNewDb(n, now)]
            /\ file' = IF SaveDbBlocks("free") THEN file ELSE CreateNewDb(n, now)
  /\ UNCHANGED <<now, call>>
  /\ UNCHANGED dvars
  /\ UNCHANGED rvars
  /\ UNCHANGED xvars

\* The process ends (exit, kill, crash): its memory and its threads are gone.
Stop(n) ==
  /\ up[n]
  /\ up' = [up EXCEPT ![n] = FALSE]
  /\ mem' = [mem EXCEPT ![n] = NoDb]
  /\ seed' = [seed EXCEPT ![n] = 0]
  /\ lock' = [lock EXCEPT ![n] = "free"]
  /\ call' = [call EXCEPT ![n] = IF call[n].result = "True"
                                    THEN [call[n] EXCEPT !.ended = TRUE, !.prev = "none"]
                                    ELSE NoCall]
  /\ UNCHANGED <<now, file, starts>>
  /\ UNCHANGED dvars
  /\ UNCHANGED rvars
  /\ UNCHANGED xvars

\* should_process_url with the age test ahead of the ownership test: the node's own
\* in-flight record is resumed only while it is not older than the lease timeout.
ShouldProcessBodyTimeoutFirst(db, n, sd, u, t) ==
  IF InList(u, db.processed_courses)
    THEN [db |-> db, ret |-> FALSE, hashed |-> FALSE, url_hash |-> 0, save |-> FALSE]
    ELSE
      LET info == db.in_progress_courses[u]
          here == info # NoClaim
      IN
        IF here /\ ~(t - info.start_time > LeaseTimeout)
          THEN [db |-> db, ret |-> info.node_id = n, hashed |-> FALSE, url_hash |-> 0,
                save |-> FALSE]
        ELSE
          LET db1 == IF here THEN [db EXCEPT !.in_progress_courses[u] = NoClaim] ELSE db
              url_hash == Partition(Hash(sd, u), TotalNodes)
          IN
            IF url_hash = n
              THEN [db |-> [db1 EXCEPT !.in_progress_courses[u] =
                                          [node_id |-> n, start_time |-> t]],
                    ret |-> TRUE, hashed |-> TRUE, url_hash |-> url_hash, save |-> TRUE]
              ELSE [db |-> db1, ret |-> FALSE, hashed |-> TRUE, url_hash |-> url_hash,
                    save |-> FALSE]

\* The body of should_process_url under db_lock, on the in-memory db of node n with
\* hash salt sd at time t: the db it leaves, the value it is about to return, the
\* partition index it computed
\* (0: none), whether it computed one, and whether it goes through _save_db first.
ShouldProcessBody(db, n, sd, u, t) ==
  IF InList(u, db.processed_courses)
    THEN [db |-> db, ret |-> FALSE, hashed |-> FALSE, url_hash |-> 0, save |-> FALSE]
    ELSE
      LET info == db.in_progress_courses[u]
          here == info # NoClaim
      IN
        IF here /\ info.node_id = n
          THEN [db |-> db, ret |-> TRUE, hashed |-> FALSE, url_hash |-> 0, save |-> FALSE]
        ELSE IF here /\ ~(t - info.start_time > LeaseTimeout)
          THEN [db |-> db, ret |-> FALSE, hashed |-> FALSE, url_hash |-> 0, save |-> FALSE]
        ELSE
          LET db1 == IF here THEN [db EXCEPT !.in_progress_courses[u] = NoClaim] ELSE db
              url_hash == Partition(Hash(sd, u), TotalNodes)
          IN
            IF url_hash = n
              THEN [db |-> [db1 EXCEPT !.in_progress_courses[u] =
                                          [node_id |-> n, start_time |-> t]],
                    ret |-> TRUE, hashed |-> TRUE, url_hash |-> url_hash, save |-> TRUE]
              ELSE [db |-> db1, ret |-> FALSE, hashed |-> TRUE, url_hash |-> url_hash,
                    save |-> FALSE]

\* The body of mark_as_processed under db_lock; it always ends in _save_db.
MarkBody(db, u, success) ==
  LET db1 == [db EXCEPT !.in_progress_courses[u] = NoClaim]
  IN
    IF success
      THEN IF InList(u, db1.processed_courses)
             THEN db1
             ELSE [db1 EXCEPT !.processed_courses = Append(@, u)]
      ELSE IF InList(u, db1.failed_courses)
             THEN db1
             ELSE [db1 EXCEPT !.failed_courses = Append(@, u)]

\* The nodes _heartbeat of node n finds offline at time t.
OfflineNodes(db, n, t) ==
  LET nodes1 == [db.nodes EXCEPT ![Str(n)] = t]
      offline_threshold == t - (SyncInterval * 2)
  IN {k \in NodeKeys : nodes1[k] # Absent /\ nodes1[k] < offline_threshold}

\* _heartbeat that releases the claims of the offline nodes only, whatever their age.
HeartbeatBodyOfflineOnly(db, n, t) ==
  LET nodes1 == [db.nodes EXCEPT ![Str(n)] = t]
      offline_nodes == OfflineNodes(db, n, t)
  IN
    [db EXCEPT
       !.nodes = [k \in NodeKeys |-> IF k \in offline_nodes THEN Absent ELSE nodes1[k]],
       !.in_progress_courses =
          [u \in Urls |->
             LET info == db.in_progress_courses[u]
             IN IF info # NoClaim /\ Str(info.node_id) \in offline_nodes
                  THEN NoClaim
                  ELSE info],
       !.last_updated = t]

\* The body of _heartbeat under db_lock; it always ends in _save_db.
HeartbeatBody(db, n, t) ==
  LET nodes1 == [db.nodes EXCEPT ![Str(n)] = t]
      offline_nodes == OfflineNodes(db, n, t)
  IN
    [db EXCEPT
       !.nodes = [k \in NodeKeys |-> IF k \in offline_nodes THEN Absent ELSE nodes1[k]],
       !.in_progress_courses =
          [u \in Urls |->
             LET info == db.in_progress_courses[u]
             IN IF info # NoClaim
                   /\ (Str(info.node_id) \in offline_nodes
                       \/ t - info.start_time > LeaseTimeout)
                  THEN NoClaim
                  ELSE info],
       !.last_updated = t]

\* What the observer records of a should_process_url(u) of node n.
CallRecord(n, u, result, r) ==
  [url |-> u, result |-> result, hashed |-> r.hashed, url_hash |-> r.url_hash,
   ended |-> FALSE,
   prev |-> IF call[n].url = u /\ call[n].result = "True"
              THEN IF call[n].ended THEN "TrueRestart" ELSE "True"
              ELSE "none"]

\* The worker thread of node n can enter `with db_lock:`.  While the lock is held
\* (by a thread that hangs in _save_db) the caller waits and nothing changes.
WorkerEnters(n) == up[n] /\ lock[n] = "free"

\* The worker thread of node n calls should_process_url(u) and runs the body with
\* db_lock held.  The path that grants the claim calls _save_db, which waits for the
\* lock its caller holds: nothing is written and the call never returns.
ShouldProcessUrlCall(n, u) ==
  /\ WorkerEnters(n)
  /\ LET r == ShouldProcessBody(mem[n], n, seed[n], u, now)
     IN
       /\ mem' = [mem EXCEPT ![n] = r.db]
       /\ IF r.save /\ SaveDbBlocks("worker")
            THEN /\ lock' = [lock EXCEPT ![n] = "worker"]
                 /\ file' = file
                 /\ call' = [call EXCEPT ![n] = CallRecord(n, u, "hung", r)]
            ELSE /\ lock' = lock
                 /\ file' = IF r.save THEN r.db ELSE file
                 /\ call' = [call EXCEPT ![n] =
                               CallRecord(n, u, IF r.ret THEN "True" ELSE "False", r)]
  /\ UNCHANGED <<now, up, seed, starts>>

\* should_process_url(u) called by the worker thread of node n, whatever the worker
\* is at.
ShouldProcessUrl(n, u) ==
  /\ ShouldProcessUrlCall(n, u)
  /\ UNCHANGED dvars
  /\ UNCHANGED rvars
  /\ UNCHANGED xvars

\* The worker thread of node n calls mark_as_processed(u, success).
MarkAsProcessedCall(n, u, success) ==
  /\ WorkerEnters(n)
  /\ LET db == MarkBody(mem[n], u, success)
     IN
       /\ mem' = [mem EXCEPT ![n] = db]
       /\ IF SaveDbBlocks("worker")
            THEN /\ lock' = [lock EXCEPT ![n] = "worker"]
                 /\ file' = file
            ELSE /\ lock' = lock
                 /\ file' = db
       /\ call' = [call EXCEPT ![n] = NoCall]
  /\ UNCHANGED <<now, up, seed, starts>>

\* mark_as_processed(u, success) called by the worker thread of node n, whatever the
\* worker is at.
MarkAsProcessed(n, u, success) ==
  /\ MarkAsProcessedCall(n, u, success)
  /\ UNCHANGED dvars
  /\ UNCHANGED rvars
  /\ UNCHANGED xvars

\* One cycle of _sync_loop in the sync thread of node n: _heartbeat, entered when
\* db_lock is free (the thread waits otherwise).
HeartbeatCall(n) ==
  /\ up[n]
  /\ lock[n] = "free"
  /\ LET db == HeartbeatBody(mem[n], n, now)
     IN
       /\ mem' = [mem EXCEPT ![n] = db]
       /\ IF SaveDbBlocks("sync")
            THEN /\ lock' = [lock EXCEPT ![n] = "sync"]
                 /\ file' = file
            ELSE /\ lock' = lock
                 /\ file' = db
  /\ call' = [call EXCEPT ![n] = NoCall]
  /\ UNCHANGED <<now, up, seed, starts>>

\* A cycle of the sync thread of node n, whatever else the process is at.
Heartbeat(n) ==
  /\ HeartbeatCall(n)
  /\ UNCHANGED dvars
  /\ UNCHANGED rvars
  /\ UNCHANGED xvars

Next ==
  \/ Tick
  \/ \E n \in Nodes : Start(n)
  \/ \E n \in Nodes : Stop(n)
  \/ \E n \in Nodes, u \in Urls : ShouldProcessUrl(n, u)
  \/ \E n \in Nodes, u \in Urls, success \in BOOLEAN : MarkAsProcessed(n, u, success)
  \/ \E n \in Nodes : Heartbeat(n)

Spec == Init /\ [][Next]_vars

\* ------------------------------------------------ CourseScraper: the runs
\* CourseScraper(subject_urls, max_courses_per_subject=cap) is constructed in a new
\* process, with or without a Chrome driver: task id, _urls_to_scrape, and
\* _load_found_courses from the file of that task id.
NewRun(subject_urls, cap, driver, enabled, node_id) ==
  /\ phase = "idle"
  /\ runs < MaxRuns
  /\ runs' = runs + 1
  /\ LET task_id == GenerateTaskId(subject_urls, DEFAULT_QUERY_URL)
         urls == UrlsToScrape(subject_urls, DEFAULT_QUERY_URL, enabled, TotalNodes, node_id)
         rec == courses_found_file[task_id]
         matched == rec # NoRecord /\ rec.task_id = task_id
                      /\ SetOf(rec.urls) = SetOf(urls)
     IN
       /\ scraper' = [task_id |-> task_id, urls_to_scrape |-> urls,
                      max_courses_per_subject |-> cap, driver |-> driver]
       /\ courses_found' = LoadFoundCourses(rec, task_id, urls)
       /\ session' = [exists |-> rec # NoRecord, matched |-> matched,
                      persisted |-> rec.courses, prior_cap |-> written_with[task_id],
                      discarded |-> session.discarded \/ (rec # NoRecord /\ ~matched)]
  /\ phase' = "constructed"
  /\ url_index' = 0
  /\ returned' = <<>>
  /\ UNCHANGED <<courses_found_file, written_with>>
  /\ UNCHANGED vars
  /\ UNCHANGED rvars
  /\ UNCHANGED xvars

\* discover_courses is called: it returns the list it has when that is not empty,
\* else it starts on the sources (and returns at once when there is none).
DiscoverCourses ==
  /\ phase = "constructed"
  /\ IF courses_found # <<>> \/ scraper.urls_to_scrape = <<>>
       THEN /\ phase' = "returned"
            /\ returned' = <<courses_found>>
            /\ url_index' = url_index
       ELSE /\ phase' = "visiting"
            /\ returned' = returned
            /\ url_index' = 1
  /\ UNCHANGED <<courses_found, courses_found_file, scraper, session, written_with, runs>>
  /\ UNCHANGED vars
  /\ UNCHANGED rvars
  /\ UNCHANGED xvars

\* discover_courses visits its next source; every append is followed by
\* _save_found_courses.  After the last source it returns courses_found.
VisitSource(ok) ==
  /\ phase = "visiting"
  /\ LET found == VisitedSource(courses_found, scraper.urls_to_scrape[url_index],
                                scraper.max_courses_per_subject, scraper.driver, ok)
     IN
       /\ courses_found' = found
       /\ IF found # courses_found
            THEN /\ courses_found_file' =
                      [courses_found_file EXCEPT ![scraper.task_id] =
                         [task_id |-> scraper.task_id, urls |-> scraper.urls_to_scrape,
                          courses |-> found]]
                 /\ written_with' = [written_with EXCEPT ![scraper.task_id] =
                                       scraper.max_courses_per_subject]
            ELSE UNCHANGED <<courses_found_file, written_with>>
       /\ IF url_index = Len(scraper.urls_to_scrape)
            THEN /\ phase' = "returned"
                 /\ returned' = <<found>>
                 /\ url_index' = url_index
            ELSE /\ phase' = phase
                 /\ returned' = returned
                 /\ url_index' = url_index + 1
  /\ UNCHANGED <<scraper, session, runs>>
  /\ UNCHANGED vars
  /\ UNCHANGED rvars
  /\ UNCHANGED xvars

\* The process of the run ends, at any point: the CourseScraper is gone, the files
\* stay.
EndRun ==
  /\ phase # "idle"
  /\ phase' = "idle"
  /\ courses_found' = <<>>
  /\ scraper' = NoScraper
  /\ url_index' = 0
  /\ returned' = <<>>
  /\ session' = [NoSession EXCEPT !.discarded = session.discarded]
  /\ UNCHANGED <<courses_found_file, written_with, runs>>
  /\ UNCHANGED vars
  /\ UNCHANGED rvars
  /\ UNCHANGED xvars

\* The runs of CourseScraper one after the other; the coordinator is not running.
DiscoveryInit == Init /\ file = NoDb

DiscoveryNext ==
  \/ \E subject_urls \in SubjectUrlLists, cap \in Caps, driver \in BOOLEAN,
        enabled \in BOOLEAN, node_id \in Nodes :
       NewRun(subject_urls, cap, driver, enabled, node_id)
  \/ DiscoverCourses
  \/ \E ok \in BOOLEAN : VisitSource(ok)
  \/ EndRun

DiscoverySpec == DiscoveryInit /\ [][DiscoveryNext]_dvars

\* ------------------------------------------------ discover_courses, scroll by scroll
\* discover_courses goes on to the next source, or returns after the last one.
NextSource(found) ==
  IF url_index = Len(scraper.urls_to_scrape)
    THEN /\ phase' = "returned"
         /\ returned' = <<found>>
         /\ url_index' = url_index
    ELSE /\ phase' = phase
         /\ returned' = returned
         /\ url_index' = url_index + 1

\* Every append to courses_found is followed by _save_found_courses.
SaveFoundCourses(found) ==
  IF found # courses_found
    THEN /\ courses_found_file' =
              [courses_found_file EXCEPT ![scraper.task_id] =
                 [task_id |-> scraper.task_id, urls |-> scraper.urls_to_scrape,
                  courses |-> found]]
         /\ written_with' = [written_with EXCEPT ![scraper.task_id] =
                               scraper.max_courses_per_subject]
    ELSE UNCHANGED <<courses_found_file, written_with>>

\* A single-node CourseScraper is constructed on custom subject_urls with no
\* courses_found file, and discover_courses is called.
ScrollStart(subject_urls, cap, driver) ==
  /\ phase = "idle"
  /\ runs = 0
  /\ runs' = 1
  /\ scraper' = [task_id |-> GenerateTaskId(subject_urls, DEFAULT_QUERY_URL),
                 urls_to_scrape |-> UrlsToScrape(subject_urls, DEFAULT_QUERY_URL, FALSE, 1, 1),
                 max_courses_per_subject |-> cap, driver |-> driver]
  /\ courses_found' = <<>>
  /\ phase' = "visiting"
  /\ url_index' = 1
  /\ returned' = <<>>
  /\ scrolling' = NoScroll
  /\ UNCHANGED <<courses_found_file, session, written_with>>
  /\ UNCHANGED <<svars, args, disk>>
  /\ UNCHANGED vars
  /\ UNCHANGED rvars

\* The body of `for url_index, current_url in enumerate(self._urls_to_scrape)` up to
\* the scroll loop: the requests fallback without a driver; with one, the first page
\* (no article: timeout, next source) and its courses, and the scroll loop begins
\* unless the limit is reached.  When the visit raises (ok is false) nothing is
\* added.
OpenSource(ok) ==
  /\ phase = "visiting"
  /\ ~scrolling.active
  /\ LET current_url == scraper.urls_to_scrape[url_index]
         cap == scraper.max_courses_per_subject
         first == PageAfter(current_url, 0)
         r == AddCourses(courses_found, 0, first, current_url, cap)
     IN
       IF ~ok \/ ~scraper.driver \/ first = <<>>
         THEN LET found == VisitedSource(courses_found, current_url, cap,
                                         scraper.driver, ok)
              IN /\ courses_found' = found
                 /\ SaveFoundCourses(found)
                 /\ NextSource(found)
                 /\ scrolling' = NoScroll
         ELSE /\ courses_found' = r.found
              /\ SaveFoundCourses(r.found)
              /\ IF cap # None /\ r.count >= cap
                   THEN /\ NextSource(r.found)
                        /\ scrolling' = NoScroll
                   ELSE /\ scrolling' = [active |-> TRUE, scroll_attempt |-> 1,
                                         courses_before_scroll |-> r.count,
                                         courses_found_this_subject |-> r.count,
                                         iterations |-> 0, ended_by |-> "none"]
                        /\ UNCHANGED <<phase, returned, url_index>>
  /\ UNCHANGED <<scraper, session, runs>>
  /\ UNCHANGED <<svars, args, disk>>
  /\ UNCHANGED vars
  /\ UNCHANGED rvars

\* A scroll loop without the limit of scrolls: `while True`.
WhileTrue(scroll_attempt) == TRUE

\* `while scroll_attempt <= max_scroll_attempts`
WhileScrollAttempt(scroll_attempt) == scroll_attempt <= MaxScrollAttempts

\* One turn of `while scroll_attempt <= max_scroll_attempts`: scroll, read the page
\* (this raises when ok is false: break), break when no new course was loaded, else
\* append the new courses up to the limit, break when the limit is reached, else
\* count the scroll; the loop is left when the count passes max_scroll_attempts.
ScrollStep(ok) ==
  /\ phase = "visiting"
  /\ scrolling.active
  /\ WhileScrollAttempt(scrolling.scroll_attempt)
  /\ LET current_url == scraper.urls_to_scrape[url_index]
         cap == scraper.max_courses_per_subject
         current_courses == PageAfter(current_url, scrolling.scroll_attempt)
         new_courses == SubSeq(current_courses, scrolling.courses_before_scroll + 1,
                               Len(current_courses))
         r == AddCourses(courses_found, scrolling.courses_found_this_subject,
                         new_courses, current_url, cap)
         left(by) == [scrolling EXCEPT !.active = FALSE, !.iterations = @ + 1,
                                       !.ended_by = by]
     IN
       IF ~ok
         THEN /\ courses_found' = courses_found
              /\ SaveFoundCourses(courses_found)
              /\ NextSource(courses_found)
              /\ scrolling' = left("raised")
       ELSE IF Len(current_courses) <= scrolling.courses_before_scroll
         THEN /\ courses_found' = courses_found
              /\ SaveFoundCourses(courses_found)
              /\ NextSource(courses_found)
              /\ scrolling' = left("no_new")
       ELSE
         /\ courses_found' = r.found
         /\ SaveFoundCourses(r.found)
         /\ IF cap # None /\ r.count >= cap
              THEN /\ NextSource(r.found)
                   /\ scrolling' = [left("limit") EXCEPT
                                      !.courses_found_this_subject = r.count,
                                      !.courses_before_scroll = r.count]
            ELSE IF ~WhileScrollAttempt(scrolling.scroll_attempt + 1)
              THEN /\ NextSource(r.found)
                   /\ scrolling' = [left("max_scroll_attempts") EXCEPT
                                      !.courses_found_this_subject = r.count,
                                      !.courses_before_scroll = r.count,
                                      !.scroll_attempt = @ + 1]
              ELSE /\ scrolling' = [scrolling EXCEPT
                                      !.iterations = @ + 1,
                                      !.courses_found_this_subject = r.count,
                                      !.courses_before_scroll = r.count,
                                      !.scroll_attempt = @ + 1]
                   /\ UNCHANGED <<phase, returned, url_index>>
  /\ UNCHANGED <<scraper, session, runs>>
  /\ UNCHANGED <<svars, args, disk>>
  /\ UNCHANGED vars
  /\ UNCHANGED rvars

ScrollNext ==
  \/ \E subject_urls \in ScrollUrlLists, cap \in Caps, driver \in BOOLEAN :
       ScrollStart(subject_urls, cap, driver)
  \/ \E ok \in BOOLEAN : OpenSource(ok)
  \/ \E ok \in BOOLEAN : ScrollStep(ok)

\* discover_courses does its next step as long as it has not returned.
ScrollSpec ==
  /\ DiscoveryInit
  /\ [][ScrollNext]_<<dvars, scrolling>>
  /\ WF_<<dvars, scrolling>>(\E ok \in BOOLEAN : OpenSource(ok))
  /\ WF_<<dvars, scrolling>>(\E ok \in BOOLEAN : ScrollStep(ok))

\* ------------------------------------------------ store I/O that fails
\* __init__ and _init_db with the outcomes of the store I/O: the read of the existing
\* file raises or not (read_ok; a file that cannot be parsed always raises), and the
\* write of _save_db in _create_new_db ends as `write` says.  Both exceptions are
\* caught and logged, and the construction goes on.
InitDb(n, read_ok, write) ==
  /\ ~up[n]
  /\ starts < MaxStarts
  /\ up' = [up EXCEPT ![n] = TRUE]
  /\ starts' = starts + 1
  /\ \E sd \in Seeds : seed' = [seed EXCEPT ![n] = sd]
  /\ lock' = [lock EXCEPT ![n] = "free"]
  /\ IF file # NoDb /\ file # Garbled /\ read_ok
       THEN /\ mem' = [mem EXCEPT ![n] = file]
            /\ file' = file
            /\ io' = [io EXCEPT ![n] = NoIo]
       ELSE /\ mem' = [mem EXCEPT ![n] = CreateNewDb(n, now)]
            /\ file' = CASE SaveDbBlocks("free") -> file
                         [] write = "ok" -> CreateNewDb(n, now)
                         [] write = "open_raises" -> file
                         [] OTHER -> Garbled
            /\ io' = [io EXCEPT ![n] = [read_failed |-> file # NoDb, write |-> write]]
  /\ UNCHANGED <<now, call>>
  /\ UNCHANGED <<scraping_enabled, work, stats>>
  /\ UNCHANGED dvars
  /\ UNCHANGED xvars

\* The coordinator with store I/O that can fail.
IoNext ==
  \/ Tick
  \/ \E n \in Nodes, read_ok \in BOOLEAN, write \in WriteOutcomes : InitDb(n, read_ok, write)
  \/ \E n \in Nodes : Stop(n)
  \/ \E n \in Nodes, u \in Urls : ShouldProcessUrl(n, u)
  \/ \E n \in Nodes, u \in Urls, success \in BOOLEAN : MarkAsProcessed(n, u, success)
  \/ \E n \in Nodes : Heartbeat(n)

\* The behaviours with failing store I/O hold at most MaxIoStarts process starts.
IoInit ==
  /\ now = 0
  /\ file \in {NoDb} \cup {db \in StoredStates : WellFormed(db)}
  /\ up = [n \in Nodes |-> FALSE]
  /\ seed = [n \in Nodes |-> 0]
  /\ mem = [n \in Nodes |-> NoDb]
  /\ lock = [n \in Nodes |-> "free"]
  /\ call = [n \in Nodes |-> NoCall]
  /\ starts = MaxStarts - MaxIoStarts
  /\ DiscoveryIdle
  /\ ExtraIdle
  /\ RunIdle

IoSpec == IoInit /\ [][IoNext]_<<vars, io>>

\* --------------------------------------------------- CourseScraper: run()
\* The worker loop that goes to the fetch whatever should_process_url returned.
AfterAttemptFetchAnyway(w, result) ==
  [w EXCEPT
     !.attempts = Append(@, [position |-> w.index, result |-> result]),
     !.stage = CASE result \in {"True", "False"} -> "fetch" [] OTHER -> "hung",
     !.progress_percent =
        ProgressPercent(w.courses_found, w.courses_processed, w.courses_failed)]

\* The worker loop after should_process_url of the position at hand gave `result`
\* ("True", "False", or "hung": it never returns).  On True the loop prints the
\* progress and goes on to the fetch; on False it goes to the next position.
AfterAttempt(w, result) ==
  [w EXCEPT
     !.attempts = Append(@, [position |-> w.index, result |-> result]),
     !.stage = CASE result = "True" -> "fetch" [] result = "False" -> "loop"
                 [] OTHER -> "hung",
     !.index = IF result = "False" THEN @ + 1 ELSE @,
     !.progress_percent =
        IF result = "True"
          THEN ProgressPercent(w.courses_found, w.courses_processed, w.courses_failed)
          ELSE @]

\* The worker loop after mark_as_processed of the position at hand was called: when
\* it returns, the loop prints the progress and goes to the next position.
AfterMark(w, returns) ==
  [w EXCEPT
     !.marks = Append(@, [position |-> w.index, success |-> w.success]),
     !.stage = IF returns THEN "loop" ELSE "hung",
     !.index = IF returns THEN @ + 1 ELSE @,
     !.progress_percent =
        IF returns
          THEN ProgressPercent(w.courses_found, w.courses_processed, w.courses_failed)
          ELSE @]

\* The process of a run: the CourseScraper constructs its DistributedScraper.  One
\* process runs; what the other nodes did is in the store it finds.  Without
\* --distributed the node id is the default 1.
ProcessStart(n) ==
  /\ \A m \in Nodes : ~up[m]
  /\ scraping_enabled \/ n = 1
  /\ Start(n)

\* run() in distributed mode calls get_stats before discover_courses and after
\* process_courses; get_stats waits for db_lock.
GetStats(n) ==
  /\ up[n]
  /\ scraping_enabled
  /\ lock[n] = "free"
  /\ work[n].stage \in {"none", "returned"}
  /\ stats' = [stats EXCEPT ![n] = GetStatsBody(mem[n])]
  /\ work' = [work EXCEPT ![n].stage = IF @ = "none" THEN "begun" ELSE "done"]
  /\ UNCHANGED <<io, scraping_enabled>>
  /\ UNCHANGED vars
  /\ UNCHANGED dvars
  /\ UNCHANGED xvars

\* run(max_total_courses) as main calls it reaches process_courses with the list
\* `found` that discover_courses returned: courses_to_process is set.
ProcessCourses(n, found, arg) ==
  /\ up[n]
  /\ work[n].stage = IF scraping_enabled THEN "begun" ELSE "none"
  /\ LET max_total_courses == MaxTotalCoursesOf(arg)
     IN work' = [work EXCEPT ![n] =
                   [NoWork EXCEPT
                      !.stage = "loop",
                      !.index = 1,
                      !.max_total_courses = max_total_courses,
                      !.courses_found = found,
                      !.courses_to_process =
                         IF max_total_courses # None
                           THEN Slice(found, max_total_courses)
                           ELSE found]]
  /\ UNCHANGED <<io, scraping_enabled, stats>>
  /\ UNCHANGED vars
  /\ UNCHANGED dvars
  /\ UNCHANGED xvars

\* One turn of `for index, course in enumerate(courses_to_process)` up to the end of
\* should_process_url: an entry without url is skipped; should_process_url returns
\* True at once when distributed scraping is off.
Attempt(n) ==
  /\ up[n]
  /\ work[n].stage = "loop"
  /\ work[n].index <= Len(work[n].courses_to_process)
  /\ LET w == work[n]
         course_url == w.courses_to_process[w.index]
     IN
       IF course_url = NoUrl
         THEN /\ work' = [work EXCEPT ![n].index = @ + 1]
              /\ UNCHANGED vars
       ELSE IF ~scraping_enabled
         THEN /\ work' = [work EXCEPT ![n] = AfterAttempt(w, "True")]
              /\ UNCHANGED vars
         ELSE /\ ShouldProcessUrlCall(n, course_url)
              /\ work' = [work EXCEPT ![n] = AfterAttempt(w, call'[n].result)]
  /\ UNCHANGED <<io, scraping_enabled, stats>>
  /\ UNCHANGED dvars
  /\ UNCHANGED xvars

\* ContentScraper(course_url).run() ends as `result` says and the course is appended
\* to courses_processed or courses_failed.
Fetch(n, result) ==
  /\ up[n]
  /\ work[n].stage = "fetch"
  /\ LET w == work[n]
         course_url == w.courses_to_process[w.index]
     IN work' = [work EXCEPT ![n] =
                   [w EXCEPT
                      !.fetched = Append(@, w.index),
                      !.courses_processed =
                         IF result = "path" THEN Append(@, course_url) ELSE @,
                      !.courses_failed =
                         IF result # "path" THEN Append(@, course_url) ELSE @,
                      !.success = (result = "path"),
                      !.stage = "mark"]]
  /\ UNCHANGED <<io, scraping_enabled, stats>>
  /\ UNCHANGED vars
  /\ UNCHANGED dvars
  /\ UNCHANGED xvars

\* mark_as_processed(course_url, success) of the position at hand; it returns at
\* once when distributed scraping is off.
Mark(n) ==
  /\ up[n]
  /\ work[n].stage = "mark"
  /\ LET w == work[n]
         course_url == w.courses_to_process[w.index]
     IN
       IF ~scraping_enabled
         THEN /\ work' = [work EXCEPT ![n] = AfterMark(w, TRUE)]
              /\ UNCHANGED vars
         ELSE /\ MarkAsProcessedCall(n, course_url, w.success)
              /\ work' = [work EXCEPT ![n] = AfterMark(w, lock'[n] = "free")]
  /\ UNCHANGED <<io, scraping_enabled, stats>>
  /\ UNCHANGED dvars
  /\ UNCHANGED xvars

\* The loop is over: process_courses prints the progress and returns.
Return(n) ==
  /\ up[n]
  /\ work[n].stage = "loop"
  /\ work[n].index > Len(work[n].courses_to_process)
  /\ work' = [work EXCEPT
                ![n].stage = "returned",
                ![n].progress_percent =
                   ProgressPercent(work[n].courses_found, work[n].courses_processed,
                                   work[n].courses_failed)]
  /\ UNCHANGED <<io, scraping_enabled, stats>>
  /\ UNCHANGED vars
  /\ UNCHANGED dvars
  /\ UNCHANGED xvars

\* The sync thread, which start_sync starts in distributed mode only.
SyncCycle(n) == scraping_enabled /\ Heartbeat(n)

\* A run starts with or without --distributed.  The store it finds matters in
\* distributed mode only: no store is taken otherwise.
ProcessInit ==
  /\ now = 0
  /\ file \in {NoDb} \cup {db \in StoredStates : WellFormed(db)}
  /\ up = [n \in Nodes |-> FALSE]
  /\ seed = [n \in Nodes |-> 0]
  /\ mem = [n \in Nodes |-> NoDb]
  /\ lock = [n \in Nodes |-> "free"]
  /\ call = [n \in Nodes |-> NoCall]
  /\ starts = 0
  /\ DiscoveryIdle
  /\ ExtraIdle
  /\ io = [n \in Nodes |-> NoIo]
  /\ scraping_enabled \in BOOLEAN
  /\ scraping_enabled \/ file = NoDb
  /\ work = [n \in Nodes |-> NoWork]
  /\ stats = [n \in Nodes |-> NoStats]

ProcessNext ==
  \/ Tick
  \/ \E n \in Nodes : ProcessStart(n)
  \/ \E n \in Nodes : GetStats(n)
  \/ \E n \in Nodes, found \in FoundLists, arg \in TotalArgs : ProcessCourses(n, found, arg)
  \/ \E n \in Nodes : Attempt(n)
  \/ \E n \in Nodes, result \in FetchResults : Fetch(n, result)
  \/ \E n \in Nodes : Mark(n)
  \/ \E n \in Nodes : Return(n)
  \/ \E n \in Nodes : SyncCycle(n)

ProcessSpec == ProcessInit /\ [][ProcessNext]_<<vars, rvars>>

\* ------------------------------------------------ the sync thread
\* How many sync threads a DistributedScraper starts.
MaxThreads == 3

\* `if not DISTRIBUTED_SCRAPING_ENABLED: return` that is left out.
NotEnabledIgnored == FALSE

\* `if not DISTRIBUTED_SCRAPING_ENABLED:` at the head of start_sync,
\* should_process_url and mark_as_processed.
NotEnabled == ~scraping_enabled

\* The sync threads of node n that are alive.
Alive(n) == {t \in 1 .. Len(threads[n]) : threads[n][t] # "exited"}

\* start_sync that asks nothing about the thread it holds.
MayStartThreadAlways(n) == TRUE

\* `if self.sync_thread is None or not self.sync_thread.is_alive():`
MayStartThread(n) == sync_thread[n] = 0 \/ sync_thread[n] \notin Alive(n)

\* start_sync: nothing when distributed scraping is off or the thread it holds is
\* alive; else sync_running is set and a new thread is started.
StartSync(n) ==
  /\ up[n]
  /\ Len(threads[n]) < MaxThreads
  /\ sync_call' = [sync_call EXCEPT ![n] = "start_sync"]
  /\ IF ~NotEnabled /\ MayStartThread(n)
       THEN /\ sync_running' = [sync_running EXCEPT ![n] = TRUE]
            /\ threads' = [threads EXCEPT ![n] = Append(@, "started")]
            /\ sync_thread' = [sync_thread EXCEPT ![n] = Len(threads[n]) + 1]
       ELSE UNCHANGED <<sync_running, sync_thread, threads>>
  /\ UNCHANGED <<scrolling, args, disk>>
  /\ UNCHANGED vars
  /\ UNCHANGED dvars
  /\ UNCHANGED rvars

\* stop_sync: sync_running is cleared and the thread is joined for at most 5 s.  A
\* thread that comes to the test of _sync_loop within that time exits (joined);
\* one that is inside _heartbeat, or does not get there, is alive when join returns.
StopSync(n, joined) ==
  /\ up[n]
  /\ sync_call' = [sync_call EXCEPT ![n] = "stop_sync"]
  /\ sync_running' = [sync_running EXCEPT ![n] = FALSE]
  /\ IF joined /\ sync_thread[n] # 0 /\ threads[n][sync_thread[n]] = "started"
       THEN threads' = [threads EXCEPT ![n][sync_thread[n]] = "exited"]
       ELSE threads' = threads
  /\ UNCHANGED <<sync_thread, scrolling, args, disk>>
  /\ UNCHANGED vars
  /\ UNCHANGED dvars
  /\ UNCHANGED rvars

\* Thread t of node n at `while self.sync_running`: it exits, or it calls _heartbeat,
\* which runs when db_lock is free and waits for it otherwise; _heartbeat hangs in
\* _save_db and does not return.
SyncLoop(n, t) ==
  /\ up[n]
  /\ t \in 1 .. Len(threads[n])
  /\ threads[n][t] = "started"
  /\ IF ~sync_running[n]
       THEN /\ threads' = [threads EXCEPT ![n][t] = "exited"]
            /\ UNCHANGED vars
       ELSE /\ threads' = [threads EXCEPT ![n][t] = "heartbeat"]
            /\ IF lock[n] = "free" THEN HeartbeatCall(n) ELSE UNCHANGED vars
  /\ UNCHANGED <<sync_running, sync_thread, sync_call, scrolling, args, disk>>
  /\ UNCHANGED dvars
  /\ UNCHANGED rvars

\* should_process_url(u) of node n in either mode: True at once when distributed
\* scraping is off.
ShouldProcessUrlInMode(n, u) ==
  /\ IF NotEnabled
       THEN /\ up[n]
            /\ call' = [call EXCEPT ![n] = [NoCall EXCEPT !.url = u, !.result = "True"]]
            /\ UNCHANGED <<now, file, up, seed, mem, lock, starts>>
       ELSE ShouldProcessUrlCall(n, u)
  /\ UNCHANGED dvars
  /\ UNCHANGED rvars
  /\ UNCHANGED xvars

\* mark_as_processed(u, success) of node n in either mode: it returns at once when
\* distributed scraping is off.
MarkAsProcessedInMode(n, u, success) ==
  /\ IF NotEnabled
       THEN /\ up[n]
            /\ call' = [call EXCEPT ![n] = NoCall]
            /\ UNCHANGED <<now, file, up, seed, mem, lock, starts>>
       ELSE MarkAsProcessedCall(n, u, success)
  /\ UNCHANGED dvars
  /\ UNCHANGED rvars
  /\ UNCHANGED xvars

\* One process with its DistributedScraper, with or without --distributed, on the
\* store it finds.
SyncInit ==
  /\ now = 0
  /\ file \in {NoDb} \cup {db \in StoredStates : WellFormed(db)}
  /\ up = [n \in Nodes |-> FALSE]
  /\ seed = [n \in Nodes |-> 0]
  /\ mem = [n \in Nodes |-> NoDb]
  /\ lock = [n \in Nodes |-> "free"]
  /\ call = [n \in Nodes |-> NoCall]
  /\ starts = 0
  /\ DiscoveryIdle
  /\ ExtraIdle
  /\ io = [n \in Nodes |-> NoIo]
  /\ scraping_enabled \in BOOLEAN
  /\ work = [n \in Nodes |-> NoWork]
  /\ stats = [n \in Nodes |-> NoStats]

SyncNext ==
  \/ \E n \in Nodes : ProcessStart(n)
  \/ \E n \in Nodes : StartSync(n)
  \/ \E n \in Nodes, joined \in BOOLEAN : StopSync(n, joined)
  \/ \E n \in Nodes, t \in 1 .. MaxThreads : SyncLoop(n, t)
  \/ \E n \in Nodes, u \in Urls : ShouldProcessUrlInMode(n, u)
  \/ \E n \in Nodes, u \in Urls, success \in BOOLEAN : MarkAsProcessedInMode(n, u, success)

SyncSpec == SyncInit /\ [][SyncNext]_<<vars, svars>>

\* ------------------------------------------------ main
\* The command lines of main: --force-refresh, --distributed, --db-path.
ArgSets ==
  [parsed : {TRUE}, force_refresh : BOOLEAN, distributed : BOOLEAN, db_path : DbPaths]

\* The path of the store file that the DistributedScraper of this process opens:
\* constants.DISTRIBUTED_DB_PATH, which main sets to --db-path with --distributed
\* only.
LoadedDbPath(a) == IF a.distributed THEN a.db_path ELSE DISTRIBUTED_DB_PATH

\* main up to the construction of the CourseScraper: with --force-refresh the file
\* at DISTRIBUTED_DB_PATH, as main imported it, is removed; with --distributed the
\* constants are set.  `file` is from here on the store file at the path that the
\* coordinator opens; disk keeps what the paths held when main was through.
Main(a) ==
  /\ ~args.parsed
  /\ \A n \in Nodes : ~up[n]
  /\ args' = a
  /\ disk' = IF a.force_refresh
               THEN [disk EXCEPT ![DISTRIBUTED_DB_PATH] = NoDb]
               ELSE disk
  /\ scraping_enabled' = a.distributed
  /\ file' = disk'[LoadedDbPath(a)]
  /\ UNCHANGED <<now, up, seed, mem, lock, call, starts>>
  /\ UNCHANGED <<io, work, stats>>
  /\ UNCHANGED <<scrolling, svars>>
  /\ UNCHANGED dvars

\* main constructs the CourseScraper, and that its DistributedScraper.
Construct(n) == args.parsed /\ ProcessStart(n)

\* The store files main finds at the two paths; DISTRIBUTED_SCRAPING_ENABLED of
\* constants.py is False.
MainInit ==
  /\ now = 0
  /\ file = NoDb
  /\ up = [n \in Nodes |-> FALSE]
  /\ seed = [n \in Nodes |-> 0]
  /\ mem = [n \in Nodes |-> NoDb]
  /\ lock = [n \in Nodes |-> "free"]
  /\ call = [n \in Nodes |-> NoCall]
  /\ starts = 0
  /\ DiscoveryIdle
  /\ io = [n \in Nodes |-> NoIo]
  /\ scraping_enabled = FALSE
  /\ work = [n \in Nodes |-> NoWork]
  /\ stats = [n \in Nodes |-> NoStats]
  /\ scrolling = NoScroll
  /\ sync_running = [n \in Nodes |-> FALSE]
  /\ sync_thread = [n \in Nodes |-> 0]
  /\ threads = [n \in Nodes |-> <<>>]
  /\ sync_call = [n \in Nodes |-> "none"]
  /\ args = NoArgs
  /\ disk \in [DbPaths -> {NoDb} \cup {db \in StoredStates : WellFormed(db)}]

MainNext ==
  \/ \E a \in ArgSets : Main(a)
  \/ \E n \in Nodes : Construct(n)
  \/ \E n \in Nodes, u \in Urls : ShouldProcessUrlInMode(n, u)
  \/ \E n \in Nodes, u \in Urls, success \in BOOLEAN : MarkAsProcessedInMode(n, u, success)

MainSpec == MainInit /\ [][MainNext]_<<vars, scraping_enabled, args, disk>>

\* ------------------------------------------------------------------ claims

\* should_process_url(u) of node n decided to grant: it returned True, or it made
\* the in-flight record and hangs in the _save_db that precedes `return True`.
Granted(n, u) ==
  up[n] /\ ~call[n].ended /\ call[n].url = u /\ call[n].result \in {"True", "hung"}

Exclusive(db) ==
  \A u \in Urls :
    Cardinality({k \in {"processed", "failed", "in_progress"} :
                   \/ k = "processed" /\ InList(u, db.processed_courses)
                   \/ k = "failed" /\ InList(u, db.failed_courses)
                   \/ k = "in_progress" /\ db.in_progress_courses[u] # NoClaim}) <= 1

C2_StatusExclusive ==
  /\ Exclusive(file)
  /\ \A n \in Nodes : Exclusive(mem[n])

\* C3: two running processes that computed the owning node of the same identifier
\* computed the same node.
C3_PartitionAgreement ==
  \A a, b \in Nodes :
    (up[a] /\ up[b] /\ call[a].hashed /\ call[b].hashed /\ call[a].url = call[b].url)
      => call[a].url_hash = call[b].url_hash

\* C4: the node index hash % total_nodes + 1 lies in [1, total_nodes] for every hash
\* value, negative ones included, and every total_nodes >= 1, every index of
\* [1, total_nodes] is the index of some hash value, and every index a
\* should_process_url computed lies in [1, total_nodes].
C4_PartitionRange ==
  /\ \A N \in 1 .. MaxTotalNodes :
       /\ \A h \in HashValues : Partition(h, N) \in 1 .. N
       /\ \A k \in 1 .. N : \E h \in HashValues : Partition(h, N) = k
  /\ \A n \in Nodes : call[n].hashed => call[n].url_hash \in 1 .. TotalNodes

\* A running node computed the index of an identifier whose hash is negative.
C4_Witness ==
  \E n \in Nodes :
    up[n] /\ ~call[n].ended /\ call[n].hashed /\ Hash(seed[n], call[n].url) < 0
      /\ call[n].url_hash = TotalNodes

\* Some running node holds u as processed: mark_as_processed(u, True) has run there,
\* or the node loaded it from the store.
Marked(u) == \E a \in Nodes : up[a] /\ InList(u, mem[a].processed_courses)

\* C5: once an identifier is completed, every later should_process_url of it, by any
\* node, returns False and makes no in-flight record.
C5_CompletionTerminal ==
  [][\A b \in Nodes, u \in Urls :
       (Marked(u) /\ ShouldProcessUrl(b, u)) =>
         /\ call'[b].result = "False"
         /\ mem'[b].in_progress_courses[u] = mem[b].in_progress_courses[u]]_vars

\* C6: a should_process_url of an identifier that the node holds in failed_courses
\* returns False and grants no claim.
C6_FailedTerminal ==
  [][\A b \in Nodes, u \in Urls :
       (InList(u, mem[b].failed_courses) /\ ShouldProcessUrl(b, u)) =>
         /\ call'[b].result = "False"
         /\ mem'[b].in_progress_courses[u] = NoClaim]_vars

\* C7: a should_process_url(x) of node n that directly follows one that returned
\* True, in the same process or after a restart that reloaded the store, returns
\* True again, and the in-flight record of x is still the one owned by n.
C7_IdempotentClaim ==
  \A n \in Nodes :
    call[n].prev \in {"True", "TrueRestart"} =>
      /\ call[n].result = "True"
      /\ (up[n] /\ ~call[n].ended) =>
           /\ mem[n].in_progress_courses[call[n].url].node_id = n
           /\ mem[n].in_progress_courses[call[n].url] = file.in_progress_courses[call[n].url]

\* One node repeated a claim in the same process and another one after a restart.
C7_Witness ==
  \E n, m \in Nodes :
    /\ call[n].prev = "True" /\ call[n].result = "True"
    /\ call[m].prev = "TrueRestart" /\ call[m].result = "True"

\* C8: a should_process_url(x) of node n2 on an identifier claimed by another node
\* returns False while the claim is not older than the lease timeout, and once it is
\* older returns True with the record owned by n2 and stamped with the time of the
\* call, whichever node the partition assigns x to.
C8_LeaseExpiry ==
  [][\A n2 \in Nodes, u \in Urls :
       LET info == mem[n2].in_progress_courses[u]
       IN (/\ info # NoClaim
           /\ info.node_id # n2
           /\ ~InList(u, mem[n2].processed_courses)
           /\ ShouldProcessUrl(n2, u)) =>
            IF now - info.start_time > LeaseTimeout
              THEN /\ call'[n2].result = "True"
                   /\ mem'[n2].in_progress_courses[u] = [node_id |-> n2, start_time |-> now]
              ELSE call'[n2].result = "False"]_vars

\* The nodes other than n whose last_active, as node n holds it, is older than
\* 2 x sync_interval at time t.
DeadPeers(n, t) ==
  {k \in NodeKeys \ {Str(n)} :
     mem[n].nodes[k] # Absent /\ mem[n].nodes[k] < t - 2 * SyncInterval}

\* C9: a _heartbeat cycle of a node that finds a peer dead removes the peer from
\* db["nodes"], deletes every in-flight record the peer owns, and the result is
\* written to the store.
C9_HeartbeatReclaim ==
  [][\A n \in Nodes :
       (Heartbeat(n) /\ DeadPeers(n, now) # {}) =>
         /\ \A k \in DeadPeers(n, now) : mem'[n].nodes[k] = Absent
         /\ \A u \in Urls :
              mem[n].in_progress_courses[u] # NoClaim
                /\ Str(mem[n].in_progress_courses[u].node_id) \in DeadPeers(n, now)
              => mem'[n].in_progress_courses[u] = NoClaim
         /\ file' = mem'[n]]_vars

\* Node a is running and ran its latest _heartbeat no longer than sync_interval ago.
HeartbeatsInTime(a) ==
  up[a] /\ lock[a] = "sync" /\ mem[a].nodes[Str(a)] >= now - SyncInterval

C12_OnlyHeartbeatReleases ==
  [][\A n \in Nodes, u \in Urls :
       /\ (ShouldProcessUrl(n, u) /\ call'[n].result = "False") =>
            /\ mem'[n].in_progress_courses = mem[n].in_progress_courses
            /\ file'.in_progress_courses = file.in_progress_courses
       /\ (/\ up[n] /\ up'[n]
           /\ mem[n].in_progress_courses[u] # NoClaim
           /\ mem'[n].in_progress_courses[u] = NoClaim
           /\ ~InList(u, mem'[n].processed_courses)
           /\ ~InList(u, mem'[n].failed_courses)) => Heartbeat(n)]_vars

\* The handlers of node n that change db and go on to _save_db.
Persists(n) ==
  \/ Heartbeat(n)
  \/ \E u \in Urls, success \in BOOLEAN : MarkAsProcessed(n, u, success)
  \/ \E u \in Urls : ShouldProcessUrl(n, u) /\ call'[n].result \in {"True", "hung"}
                       /\ mem'[n] # mem[n]

\* C14: the db a handler leaves is the persisted state after the handler, every
\* handler works on a db that holds every completed and failed identifier of the
\* persisted state, and an identifier never leaves the persisted processed_courses
\* or failed_courses.
C14_NoLostUpdates ==
  [][/\ \A n \in Nodes : Persists(n) => file' = mem'[n]
     /\ \A n \in Nodes :
          (up[n] /\ mem'[n] # mem[n] /\ up'[n]) =>
            \A u \in Urls :
              /\ InList(u, file.processed_courses) => InList(u, mem[n].processed_courses)
              /\ InList(u, file.failed_courses) => InList(u, mem[n].failed_courses)
     /\ \A u \in Urls :
          /\ InList(u, file.processed_courses) => InList(u, file'.processed_courses)
          /\ InList(u, file.failed_courses) => InList(u, file'.failed_courses)]_vars

\* How many entries of list are x.
Count(x, list) == Cardinality({i \in 1 .. Len(list) : list[i] = x})

\* C16: mark_as_processed(x, success) removes the in-flight record of x and makes x
\* a member of processed_courses (success) or failed_courses (failure); for an x that
\* already is in one of the two lists it changes neither list.
C16_CompleteIdempotent ==
  [][\A n \in Nodes, u \in Urls, success \in BOOLEAN :
       MarkAsProcessed(n, u, success) =>
         /\ mem'[n].in_progress_courses[u] = NoClaim
         /\ Count(u, IF success THEN mem'[n].processed_courses
                                ELSE mem'[n].failed_courses) = 1
         /\ (InList(u, mem[n].processed_courses) \/ InList(u, mem[n].failed_courses)) =>
              /\ mem'[n].processed_courses = mem[n].processed_courses
              /\ mem'[n].failed_courses = mem[n].failed_courses]_vars

\* The threads of a running process keep running: the sync thread starts its next
\* _heartbeat cycle and the worker thread attempts every identifier again whenever
\* they can enter, and time moves on.  Processes start and stop as they please.
Fairness ==
  /\ WF_vars(Tick)
  /\ \A n \in Nodes : WF_vars(Heartbeat(n))
  /\ \A n \in Nodes, u \in Urls : WF_vars(ShouldProcessUrl(n, u))

\* The fair behaviours start without a store or from a store in which nothing is
\* completed or failed yet, and hold at most MaxFairStarts process starts.
FairInit ==
  /\ now = 0
  /\ file \in {NoDb} \cup {db \in StoredStates : WellFormed(db)}
  /\ file.processed_courses = <<>>
  /\ file.failed_courses = <<>>
  /\ up = [n \in Nodes |-> FALSE]
  /\ seed = [n \in Nodes |-> 0]
  /\ mem = [n \in Nodes |-> NoDb]
  /\ lock = [n \in Nodes |-> "free"]
  /\ call = [n \in Nodes |-> NoCall]
  /\ starts = MaxStarts - MaxFairStarts
  /\ DiscoveryIdle
  /\ ExtraIdle
  /\ RunIdle

FairSpec == FairInit /\ [][Next]_vars /\ Fairness

\* C11: with the threads scheduled fairly, every in-flight record in the db of a
\* running node is eventually removed from it.
C11_BoundedClaimAge ==
  \A n \in Nodes, u \in Urls :
    (up[n] /\ mem[n].in_progress_courses[u] # NoClaim)
      ~> (~up[n] \/ mem[n].in_progress_courses[u] = NoClaim)

\* Node a returned True from should_process_url(u) and its process ended since.
OrphanOf(a, u) ==
  ~up[a] /\ call[a].ended /\ call[a].url = u /\ call[a].result = "True"

\* u is recorded as processed or failed, in the store or in the db of a running node.
Done(u) ==
  \/ InList(u, file.processed_courses) \/ InList(u, file.failed_courses)
  \/ \E n \in Nodes : up[n] /\ (InList(u, mem[n].processed_courses)
                                 \/ InList(u, mem[n].failed_courses))

\* C13: when node 1 was granted x and stopped, and node 2 keeps running, x
\* eventually reaches processed_courses or failed_courses (unless node 1 comes back
\* or node 2 stops too).
C13_OrphanRecovery ==
  \A u \in Urls :
    (OrphanOf(1, u) /\ up[2]) ~> (up[1] \/ ~up[2] \/ Done(u))

\* Every node is running.
AllUp == \A n \in Nodes : up[n]

\* The store holds every identifier exactly once in processed_courses and none in
\* progress.
AllDone ==
  \A u \in Urls :
    Count(u, file.processed_courses) = 1 /\ file.in_progress_courses[u] = NoClaim

\* C15: with every node running its worker loop over all the identifiers, the store
\* eventually holds each identifier exactly once in processed_courses and none in
\* progress (stated for the nodes and identifiers of the model).
C15_EndToEnd == AllUp ~> (AllDone \/ ~AllUp)

\* No two entries of the list have the same course URL.
NoDuplicateUrls(list) ==
  \A i, j \in 1 .. Len(list) : list[i].url = list[j].url => i = j

\* C17: courses_found, in memory and in every courses_found file, never holds two
\* entries with the same course URL.
C17_DedupOnIngest ==
  /\ NoDuplicateUrls(courses_found)
  /\ \A t \in TaskIds : NoDuplicateUrls(courses_found_file[t].courses)

CountFrom(url, list) ==
  Cardinality({i \in 1 .. Len(list) : list[i].subject_url = url})

\* The run has a higher limit than the run that wrote the list it resumed.
CapRaised ==
  /\ session.matched
  /\ session.prior_cap # None
  /\ \/ scraper.max_courses_per_subject = None
     \/ scraper.max_courses_per_subject > session.prior_cap

\* C19: a run that resumes a list with a higher limit returns from discover_courses
\* with every item of the list kept and, for every source that lists more courses
\* than the list holds of it, with more items of that source than before.
C19_IncrementalCapRaise ==
  (phase = "returned" /\ CapRaised) =>
    /\ SubSeq(courses_found, 1, Len(session.persisted)) = session.persisted
    /\ \A url \in SetOf(scraper.urls_to_scrape) :
         LET had == CountFrom(url, session.persisted)
             cap == scraper.max_courses_per_subject
         IN (had < Len(Listing(url)) /\ (cap = None \/ had < cap))
              => CountFrom(url, courses_found) > had

\* C20: a run that resumes a list with the limit of the run that wrote it returns
\* from discover_courses no course of that list.
C20_SecondRunNothingNew ==
  (/\ phase = "returned"
   /\ session.matched
   /\ scraper.max_courses_per_subject = session.prior_cap) =>
    \A i \in 1 .. Len(returned[1]) : \A j \in 1 .. Len(session.persisted) :
      returned[1][i].url # session.persisted[j].url

\* C22: with max_courses_per_subject a number M, a run adds at most M items to
\* courses_found for each of its source URLs, with a browser and without.
C22_PerSourceCap ==
  (phase # "idle" /\ scraper.max_courses_per_subject # None) =>
    \A url \in SetOf(scraper.urls_to_scrape) :
      CountFrom(url, courses_found)
        - (IF session.matched THEN CountFrom(url, session.persisted) ELSE 0)
          <= scraper.max_courses_per_subject

\* C27: every call of should_process_url, mark_as_processed and _heartbeat returns
\* and releases db_lock: between the calls of a running process db_lock is free.
C27_NoDeadlock == \A n \in Nodes : up[n] => lock[n] = "free"

\* C29: one _heartbeat cycle of node n deletes exactly the in-flight records whose
\* owner it found dead in that cycle or whose age exceeds the lease timeout (its own
\* included), leaves every other record and the processed and failed lists as they
\* were, and leaves n's own NodeRecord in db["nodes"].
C29_SweepExactlyStale ==
  [][\A n \in Nodes :
       Heartbeat(n) =>
         /\ \A u \in Urls :
              LET info == mem[n].in_progress_courses[u]
                  stale == /\ info # NoClaim
                           /\ \/ Str(info.node_id) \in DeadPeers(n, now)
                              \/ now - info.start_time > LeaseTimeout
              IN mem'[n].in_progress_courses[u] = IF stale THEN NoClaim ELSE info
         /\ mem'[n].processed_courses = mem[n].processed_courses
         /\ mem'[n].failed_courses = mem[n].failed_courses
         /\ mem'[n].nodes[Str(n)] # Absent]_vars

\* A _heartbeat of node 1 at time 601 deleted the record of node 2, which it found
\* dead, and kept its own record of the same age; a _heartbeat of node 2 at time
\* 3700 deleted node 2's own record, older than the lease timeout.
C29_Witness ==
  /\ file.in_progress_courses["u1"] = [node_id |-> 2, start_time |-> 0]
  /\ file.in_progress_courses["u2"] = [node_id |-> 1, start_time |-> 0]
  /\ file.nodes[Str(2)] = 0
  /\ up[1] /\ lock[1] = "sync" /\ mem[1].last_updated = 601
  /\ mem[1].in_progress_courses["u1"] = NoClaim
  /\ mem[1].nodes[Str(2)] = Absent
  /\ mem[1].in_progress_courses["u2"] = [node_id |-> 1, start_time |-> 0]
  /\ up[2] /\ lock[2] = "sync" /\ mem[2].last_updated = 3700
  /\ mem[2].in_progress_courses["u1"] = NoClaim
  /\ mem[2].nodes[Str(2)] = 3700

\* C30: a construction that cannot read or parse the existing store file leaves the
\* completed, failed and in-flight records of the file as they are.
C30_ReadFailureKeepsRecords ==
  [][\A n \in Nodes :
       (file # NoDb /\ \E write \in WriteOutcomes : InitDb(n, FALSE, write)) =>
         /\ file'.processed_courses = file.processed_courses
         /\ file'.failed_courses = file.failed_courses
         /\ file'.in_progress_courses = file.in_progress_courses]_<<vars, io>>

\* C21: a store read or write that fails is not fatal: the construction completes
\* with the fresh db in memory, and after a failed write the next handler that goes
\* to _save_db leaves the store equal to the db in memory.
C21_StoreIoNeverFatal ==
  [][\A n \in Nodes :
       /\ (\E read_ok \in BOOLEAN, write \in WriteOutcomes : InitDb(n, read_ok, write)) =>
            /\ up'[n]
            /\ io'[n].write \in {"open_raises", "dump_raises"} =>
                 mem'[n] = CreateNewDb(n, now)
       /\ (up[n] /\ io[n].write \in {"open_raises", "dump_raises"} /\ Persists(n)) =>
            file' = mem'[n]]_<<vars, io>>

\* C25: get_stats changes no field of db and writes nothing to the store, and the
\* counts it returns are the sizes of db["nodes"], db["processed_courses"],
\* db["failed_courses"] and db["in_progress_courses"] at the moment of the call.
C25_GetStatsPureRead ==
  [][\A n \in Nodes :
       GetStats(n) =>
         /\ mem' = mem
         /\ file' = file
         /\ lock' = lock
         /\ stats'[n].active_nodes =
              Cardinality({k \in NodeKeys : mem[n].nodes[k] # Absent})
         /\ stats'[n].processed_courses = Len(mem[n].processed_courses)
         /\ stats'[n].failed_courses = Len(mem[n].failed_courses)
         /\ stats'[n].in_progress_courses =
              Cardinality({u \in Urls : mem[n].in_progress_courses[u] # NoClaim})]_<<vars, rvars>>

\* get_stats returned, at the end of a run, the counts of a db that holds two active
\* nodes, one processed and no in-flight identifier, after should_process_url had
\* released in this run the stale claim the store holds.
C25_Witness ==
  \E n \in Nodes :
    /\ up[n]
    /\ work[n].stage = "done"
    /\ work[n].attempts # <<>>
    /\ stats[n].active_nodes = 2
    /\ stats[n].processed_courses = 1
    /\ stats[n].failed_courses = 0
    /\ stats[n].in_progress_courses = 0
    /\ \E u \in Urls : file.in_progress_courses[u] # NoClaim

\* The list positions that the sequence of records s names, as a set.
PositionsOf(s) == {s[i].position : i \in DOMAIN s}

\* C23: within one node process_courses attempts the entries in the order of
\* courses_found and never attempts a list position twice in a run, and for an
\* identifier for which should_process_url returned False it runs no fetch and calls
\* no mark_as_processed.
C23_DiscoveryOrder ==
  \A n \in Nodes :
    LET w == work[n]
    IN /\ \A i, j \in DOMAIN w.attempts :
            i < j => w.attempts[i].position < w.attempts[j].position
       /\ \A i \in DOMAIN w.attempts :
            LET p == w.attempts[i].position
            IN /\ p \in DOMAIN w.courses_found
               /\ w.courses_to_process[p] = w.courses_found[p]
               /\ w.attempts[i].result = "False" =>
                    /\ \A k \in DOMAIN w.fetched : w.fetched[k] # p
                    /\ p \notin PositionsOf(w.marks)
       /\ \A k \in DOMAIN w.fetched :
            \E i \in DOMAIN w.attempts :
              w.attempts[i].position = w.fetched[k] /\ w.attempts[i].result = "True"

\* should_process_url returned False for the first entry of courses_found and True for
\* the second, whose in-flight record of this node the store held; the second was
\* fetched and mark_as_processed was called for it, the first was not.
C23_Witness ==
  \E n \in Nodes :
    /\ scraping_enabled
    /\ Len(work[n].courses_found) = 2
    /\ work[n].attempts = <<[position |-> 1, result |-> "False"],
                            [position |-> 2, result |-> "True"]>>
    /\ work[n].fetched = <<2>>
    /\ PositionsOf(work[n].marks) = {2}

\* The positions of courses_to_process that the loop has gone through in the run of
\* node n: attempted, or skipped for want of a url.
Visited(n) ==
  PositionsOf(work[n].attempts)
    \cup {p \in DOMAIN work[n].courses_to_process :
            p < work[n].index /\ work[n].courses_to_process[p] = NoUrl}

\* C24: process_courses(max_total_courses = N) with N positive attempts at most N
\* entries, the first N of courses_found in discovery order; a --max-total-courses of
\* 0 or less reaches process_courses as no limit, and then every discovered entry is
\* attempted.
C24_TotalCap ==
  \A n \in Nodes :
    LET w == work[n]
        N == w.max_total_courses
        first == IF N = None \/ N > Len(w.courses_found) THEN Len(w.courses_found) ELSE N
    IN /\ N = None \/ N > 0
       /\ w.stage \in {"loop", "fetch", "mark", "hung", "returned", "done"} =>
            /\ w.courses_to_process = SubSeq(w.courses_found, 1, first)
            /\ PositionsOf(w.attempts) \subseteq 1 .. first
            /\ N # None => Len(w.attempts) <= N
            /\ w.stage \in {"returned", "done"} => Visited(n) = 1 .. first

\* A run with the limit 1 returned after it attempted and fetched the first of two
\* discovered entries and not the second.
C24_Witness ==
  \E n \in Nodes :
    /\ work[n].stage = "returned"
    /\ Len(work[n].courses_found) = 2
    /\ work[n].courses_found[2] # NoUrl
    /\ work[n].max_total_courses = 1
    /\ PositionsOf(work[n].attempts) = {1}
    /\ Len(work[n].courses_processed) = 1

\* C26: the completion that _update_progress reports is
\* (processed + failed) / max(found, 1); with no discovered entry it is 0; in every
\* state of a run processed + failed <= found, so it never exceeds 100 percent, and
\* with discovered entries it is 100 percent exactly when every one of them has an
\* outcome.
C26_CompletionRatio ==
  \A n \in Nodes :
    LET w == work[n]
        found == Len(w.courses_found)
        outcomes == Len(w.courses_processed) + Len(w.courses_failed)
        ratio == ProgressPercent(w.courses_found, w.courses_processed, w.courses_failed)
    IN /\ outcomes <= found
       /\ ratio * (IF found > 1 THEN found ELSE 1) <= outcomes * 100
       /\ outcomes * 100 < (ratio + 1) * (IF found > 1 THEN found ELSE 1)
       /\ ratio <= 100
       /\ found = 0 => ratio = 0
       /\ found > 0 => (ratio = 100 <=> outcomes = found)
       /\ w.progress_percent # None =>
            /\ 0 <= w.progress_percent /\ w.progress_percent <= 100
            /\ w.stage \in {"returned", "done"} => w.progress_percent = ratio

\* A run returned with two discovered entries, one processed and one failed, and
\* reported 100 percent.
C26_Witness ==
  \E n \in Nodes :
    /\ work[n].stage = "returned"
    /\ Len(work[n].courses_found) = 2
    /\ Len(work[n].courses_processed) = 1
    /\ Len(work[n].courses_failed) = 1
    /\ work[n].progress_percent = 100

\* The attempts of node n's run, by index, that should_process_url granted:
\* it returned True, or it made the in-flight record and hangs before `return True`.
GrantedInRun(n) ==
  {i \in DOMAIN work[n].attempts : work[n].attempts[i].result \in {"True", "hung"}}

\* The in-flight records of node n in its db for identifiers granted in its run.
HeldInRun(n) ==
  {u \in Urls :
     /\ mem[n].in_progress_courses[u] # NoClaim
     /\ mem[n].in_progress_courses[u].node_id = n
     /\ \E i \in GrantedInRun(n) :
          work[n].courses_to_process[work[n].attempts[i].position] = u}

C31_FingerprintIgnoresOrder ==
  [][\A subject_urls \in SubjectUrlLists, cap \in Caps, driver \in BOOLEAN,
        enabled \in BOOLEAN, node_id \in Nodes :
       NewRun(subject_urls, cap, driver, enabled, node_id) =>
         \A reordered \in SubjectUrlLists :
           SetOf(reordered) = SetOf(subject_urls) =>
             /\ GenerateTaskId(reordered, DEFAULT_QUERY_URL) = scraper'.task_id
             /\ LET rec == courses_found_file[scraper'.task_id]
                IN (/\ rec # NoRecord
                    /\ rec.urls = UrlsToScrape(reordered, DEFAULT_QUERY_URL, enabled,
                                               TotalNodes, node_id)) =>
                      /\ session'.matched
                      /\ courses_found' = rec.courses]_dvars

\* The lists get_subject_urls_for_node is looked at on: repeats allowed.
AnyUrlLists == UNION {[1 .. k -> SubjectUrls] : k \in 0 .. MaxSubjects + 1}

\* The list positions of a list of length len that belong to node k of N, counted
\* from 0 as enumerate does: position i goes to node (i mod N) + 1.
PositionsOfNode(len, N, k) == {i \in 0 .. len - 1 : (i % N) + 1 = k}

\* The list that get_subject_urls_for_node returns for node k of N is the input at
\* the positions of node k, in input order.
IsShare(share, list, N, k) ==
  /\ Len(share) = Cardinality(PositionsOfNode(Len(list), N, k))
  /\ \A j \in 1 .. Len(share) : share[j] = list[k + (j - 1) * N]

\* C32: in distributed mode with total_nodes = N > 1 the lists that
\* get_subject_urls_for_node returns at nodes 1..N keep input order and hold every
\* input position exactly once, position i at node (i mod N) + 1; with distributed
\* mode off or N <= 1 the input is returned unchanged.  The constructor of a run
\* takes its sources from it.  (The function reads no state: its values on all the
\* lists are looked at when the first run is constructed.)
C32_SubjectPartition ==
  [][/\ (runs = 0 /\ phase' = "constructed") =>
          \A list \in AnyUrlLists, N \in 0 .. MaxTotalNodes :
            /\ \A k \in 1 .. MaxTotalNodes :
                 /\ GetSubjectUrlsForNode(list, FALSE, N, k) = list
                 /\ N <= 1 => GetSubjectUrlsForNode(list, TRUE, N, k) = list
            /\ N > 1 =>
                 /\ \A k \in 1 .. N :
                      IsShare(GetSubjectUrlsForNode(list, TRUE, N, k), list, N, k)
                 /\ \A i \in 0 .. Len(list) - 1 :
                      Cardinality({k \in 1 .. N :
                                     i \in PositionsOfNode(Len(list), N, k)}) = 1
     /\ (phase = "idle" /\ phase' = "constructed") =>
          \A subject_urls \in SubjectUrlLists, enabled \in BOOLEAN, node_id \in Nodes :
          NewRun(subject_urls, scraper'.max_courses_per_subject, scraper'.driver,
                 enabled, node_id) =>
            LET share == IF subject_urls = DEFAULT_SUBJECT_URLS
                           THEN Tail(scraper'.urls_to_scrape)
                           ELSE scraper'.urls_to_scrape
            IN IF enabled
                 THEN IsShare(share, subject_urls, TotalNodes, node_id)
                 ELSE share = subject_urls]_dvars

\* Node 2 of 2 was constructed in distributed mode on the reversed default list and
\* took the one source at position 1.
C32_Witness ==
  /\ phase = "constructed"
  /\ scraper.task_id = GenerateTaskId(DEFAULT_SUBJECT_URLS, DEFAULT_QUERY_URL)
  /\ scraper.urls_to_scrape = << DEFAULT_SUBJECT_URLS[1] >>

C34_SingleSyncThread ==
  /\ [](\A n \in Nodes : Cardinality(Alive(n)) <= 1)
  /\ [][\A n \in Nodes :
          (StartSync(n) /\ Alive(n) # {}) => threads' = threads]_<<vars, svars>>

\* A second thread was started after the first had exited; stop_sync returned with
\* the second alive, and the start_sync that followed started no third.
C34_Witness ==
  \E n \in Nodes :
    /\ threads[n] = <<"exited", "heartbeat">>
    /\ ~sync_running[n]
    /\ sync_call[n] = "start_sync"

\* C35: a sync thread that finds sync_running false at the test of _sync_loop exits
\* and runs no _heartbeat; and once start_sync was called after a stop_sync, in
\* distributed mode, sync_running is set and a sync thread is alive to run the
\* cycles.
C35_RestartOfHeartbeat ==
  /\ [][\A n \in Nodes, t \in 1 .. MaxThreads :
          (~sync_running[n] /\ SyncLoop(n, t)) =>
            /\ threads'[n][t] = "exited"
            /\ mem' = mem
            /\ file' = file]_<<vars, svars>>
  /\ [](\A n \in Nodes :
          (up[n] /\ scraping_enabled /\ sync_call[n] = "start_sync") =>
            /\ sync_running[n]
            /\ Alive(n) # {})

\* C36: with distributed scraping off, should_process_url returns True for every
\* URL on every call, and should_process_url, mark_as_processed and start_sync leave
\* db and the store file as they are and start no thread.
C36_DisabledModeTransparent ==
  [][~scraping_enabled =>
       /\ \A n \in Nodes, u \in Urls :
            ShouldProcessUrlInMode(n, u) =>
              /\ call'[n].result = "True"
              /\ mem' = mem /\ file' = file /\ lock' = lock /\ threads' = threads
       /\ \A n \in Nodes, u \in Urls, success \in BOOLEAN :
            MarkAsProcessedInMode(n, u, success) =>
              mem' = mem /\ file' = file /\ lock' = lock /\ threads' = threads
       /\ \A n \in Nodes :
            StartSync(n) =>
              /\ mem' = mem /\ file' = file /\ lock' = lock
              /\ threads' = threads /\ sync_running' = sync_running
              /\ sync_thread' = sync_thread]_<<vars, svars>>

\* With distributed scraping off start_sync was called and should_process_url
\* returned True for a URL that the db holds as processed, while another node
\* holds an in-flight record in it; db is as it was loaded and no thread exists.
C36_Witness ==
  \E n \in Nodes, u \in Urls :
    /\ ~scraping_enabled
    /\ up[n]
    /\ sync_call[n] = "start_sync"
    /\ threads[n] = <<>>
    /\ call[n].url = u /\ call[n].result = "True"
    /\ InList(u, mem[n].processed_courses)
    /\ mem[n] = file
    /\ \E v \in Urls : /\ mem[n].in_progress_courses[v] # NoClaim
                       /\ mem[n].in_progress_courses[v].node_id # n

\* C37: a run started with --force-refresh removes the store file that its
\* coordinator then loads, so the DistributedScraper it constructs starts with no
\* processed, failed or in-flight record.
C37_ForceRefreshClears ==
  [][/\ \A a \in ArgSets : (a.force_refresh /\ Main(a)) => file' = NoDb
     /\ \A n \in Nodes :
          (args.force_refresh /\ Construct(n)) =>
            /\ mem'[n].processed_courses = <<>>
            /\ mem'[n].failed_courses = <<>>
            /\ \A u \in Urls : mem'[n].in_progress_courses[u] = NoClaim]_<<vars, scraping_enabled, args, disk>>
====
